---- MODULE Spec2Model ----
(***************************************************************************)
(* Model of src/main.cpp: four PIO state machines raise bits 0..3 of       *)
(* pio0_hw->irq, the shared handler simply_isr_handler shadows them into   *)
(* irq_flags and acknowledges them, and main() triggers each state machine *)
(* in turn and inspects irq_flags.                                         *)
(*                                                                         *)
(* Execution contexts: the main context (main, load_pio_programs,          *)
(* enable_pio_isrs, trigger_isr), the interrupt context (the handler,      *)
(* which preempts main between any two statements and is not preempted by  *)
(* it), and the four hardware state machines, which run concurrently with  *)
(* both.  No timing is modelled: the hardware and the interrupt dispatch   *)
(* may be arbitrarily late.                                                *)
(***************************************************************************)
EXTENDS Integers, Sequences, FiniteSets, TLC

\* ---------------------------------------------------------------- bounds
\* words a state machine's TX FIFO holds before pio_sm_put_blocking stalls
FifoDepth == 1
\* pio_add_program may return any offset 0..MaxOffset
MaxOffset == 1
\* the handler-run counter saturates here
MaxRuns == 2
\* the delay counter saturates here
MaxDelays == 2

\* ------------------------------------------------------- program constants
PIO_SM_0_IRQ == 1
PIO_SM_1_IRQ == 2
PIO_SM_2_IRQ == 4
PIO_SM_3_IRQ == 8
\* number of state machines of pio0 that main drives
NumSm == 4

Channels == 0 .. (NumSm - 1)

\* ------------------------------------------------------------ uint32_t bits
RECURSIVE Pow2(_)
Pow2(n) == IF n = 0 THEN 1 ELSE 2 * Pow2(n - 1)

\* 1 << sm (sm is at most 3: no bit leaves the word)
Shl1(s) == Pow2(s)

RECURSIVE BitAnd(_, _)
BitAnd(a, b) ==
    IF a = 0 \/ b = 0 THEN 0
    ELSE (IF a % 2 = 1 /\ b % 2 = 1 THEN 1 ELSE 0) + 2 * BitAnd(a \div 2, b \div 2)

RECURSIVE BitOr(_, _)
BitOr(a, b) ==
    IF a = 0 THEN b
    ELSE IF b = 0 THEN a
    ELSE (IF a % 2 = 1 \/ b % 2 = 1 THEN 1 ELSE 0) + 2 * BitOr(a \div 2, b \div 2)

\* a & ~b
BitClear(a, b) == a - BitAnd(a, b)

Bit(v, k) == (v \div Pow2(k)) % 2 = 1

\* ------------------------------------------------------------------ printf
HexDigit(d) ==
    CASE d = 0 -> "0" [] d = 1 -> "1" [] d = 2 -> "2" [] d = 3 -> "3"
      [] d = 4 -> "4" [] d = 5 -> "5" [] d = 6 -> "6" [] d = 7 -> "7"
      [] d = 8 -> "8" [] d = 9 -> "9" [] d = 10 -> "A" [] d = 11 -> "B"
      [] d = 12 -> "C" [] d = 13 -> "D" [] d = 14 -> "E" [] OTHER -> "F"

\* %0wX
RECURSIVE HexPad(_, _)
HexPad(n, w) ==
    IF w = 0 /\ n = 0 THEN ""
    ELSE HexPad(n \div 16, IF w = 0 THEN 0 ELSE w - 1) \o HexDigit(n % 16)

\* %d of a channel index
Dec(n) == HexDigit(n)

\* the channel index in the place of its bit
ExpectedIndex(s) == s

\* the value trigger_isr prints as the flags it expects
ExpectedFlags(s) == Shl1(s)

FmtTriggering(s) == "Triggering ISR from state machine " \o Dec(s)
FmtExpected(v) == "Expected IRQ flags: 0x" \o HexPad(v, 8)
FmtActual(v) == "Actual IRQ Flags: 0x" \o HexPad(v, 8)

\* ------------------------------------------------------------------- state
VARIABLES
    \* the program
    pc,          \* statement the main context executes next
    sm,          \* argument of the current trigger_isr call
    offset,      \* load_pio_programs' local offset (-1: not assigned / out of scope)
    prog_loads,  \* number of times the program was added to PIO memory
    sm_cfg,      \* per state machine: the places it was initialised to run from, in
                 \* order, relative to where the program was loaded (0: its start)
    handler,     \* handler installed for PIO0_IRQ_0
    enabled,     \* PIO0_IRQ_0 enabled at the core
    fifo,        \* per state machine: words waiting in its TX FIFO
    irq,         \* pio0_hw->irq
    irq_flags,   \* the shared shadow of the IRQ flags
    isr_pc,      \* position of the interrupt context
    \* which observer is switched on: fixed by the specification, never changed
    watch,
    \* observer of the main context's order (always on)
    trace,       \* statements the main context executed in the current loop iteration
    lastStim,    \* channel of the most recent stimulus (-1: none yet)
    prevStim,    \* channel of the stimulus before it (-1: none yet)
    delays,      \* delays since the most recent stimulus
    \* observer "reset"
    preReset,    \* irq_flags just before this iteration's reset (-1: not reset yet)
    \* observer "runs"
    runs,        \* handler runs since the main context last accessed irq_flags
    lastStatus,  \* status read by the latest of those runs (0: none)
    dropped,     \* the latest of those runs overwrote a bit an earlier one published
    \* observer "console"
    out,         \* lines printed by the current trigger_isr call, up to its read
    expected,    \* value printed as expected flags by the current call (-1: none)
    actual,      \* value printed as actual flags by the current call (-1: none)
    window,      \* the current call has sent its stimulus and not yet read irq_flags
    quiet,       \* no other channel had a stimulus outstanding at this call's send
    serviced,    \* a handler run for channel sm came between this call's send and its read
    \* observer "outcomes"
    pub,         \* bits the handler published since the latest reset, up to the next log
    own,         \* the handler ran for channel sm since this call's send, up to its log
    outcomes,    \* kinds of value the log of actual flags has shown so far
    \* observer "lost"
    owed,        \* per channel: stimuli sent whose interrupt the handler has not published yet
    unread,      \* bits the handler published that no read of the main context has observed yet
    lost,        \* bits the latest reset erased before any read observed them
    \* observer "snapshot"
    shown,       \* value the current call logged as actual flags (-1: not logged yet)
    fresh,       \* status the latest handler run between that log and the call's
                 \* last bit check read (-1: no run)
    \* observer "ack"
    spared,      \* bits raised between the latest handler run's read and its
                 \* acknowledgment, up to the next run's read
    late,        \* bits of those the current handler run found at its read
    \* observer "pace"
    paced        \* no send so far found another channel with a stimulus outstanding

prog == <<pc, sm, offset, prog_loads, sm_cfg, handler, enabled>>
hw == <<fifo, irq>>
isr == <<irq_flags, isr_pc>>
core == <<prog, hw, isr>>
order == <<trace, lastStim, prevStim, delays>>
hruns == <<runs, lastStatus, dropped>>
console == <<out, expected, actual, window, quiet, serviced>>
race == <<pub, own, outcomes>>
losses == <<owed, unread, lost>>
snapshot == <<shown, fresh>>
acks == <<spared, late>>
vars == <<core, watch, order, preReset, hruns, console, race, losses, snapshot, acks, paced>>

NoHandler == "none"
Handler == "simply_isr_handler"

Min(a, b) == IF a < b THEN a ELSE b

\* ------------------------------------------------------------ control flow
\* trigger_isr sending the word before it prints the channel
TriggerBodySendFirst ==
    << "pio_sm_put_blocking", "printf_triggering", "printf_expected",
       "printf_actual", "check_sm0", "check_sm1", "check_sm2", "check_sm3",
       "clear_flags" >>

\* trigger_isr clearing irq_flags before it inspects them
TriggerBodyResetFirst ==
    << "printf_triggering", "pio_sm_put_blocking", "printf_expected",
       "clear_flags", "printf_actual", "check_sm0", "check_sm1", "check_sm2",
       "check_sm3" >>

\* the statements of trigger_isr, in program order
TriggerBody ==
    << "printf_triggering", "pio_sm_put_blocking", "printf_expected",
       "printf_actual", "check_sm0", "check_sm1", "check_sm2", "check_sm3",
       "clear_flags" >>

\* the four bit checks of trigger_isr
CheckPc == << "check_sm0", "check_sm1", "check_sm2", "check_sm3" >>

\* the statements of trigger_isr that read irq_flags
FlagReads == {"printf_actual", "check_sm0", "check_sm1", "check_sm2", "check_sm3"}

IndexOf(seq, e) == CHOOSE i \in 1 .. Len(seq) : seq[i] = e

\* the statement after p: the next one of trigger_isr, or main's sleep_ms
\* after its return
AfterStmt(p) ==
    LET i == IndexOf(TriggerBody, p)
    IN  IF i < Len(TriggerBody) THEN TriggerBody[i + 1] ELSE "sleep_ms"

\* the calls of load_pio_programs that initialise the state machines
InitPc == << "program_init_0", "program_init_1", "program_init_2", "program_init_3" >>

\* the statements of load_pio_programs, in program order
LoadBody == << "pio_add_program" >> \o InitPc \o << "load_return" >>

\* enable_pio_isrs enabling the interrupt before it installs the handler
EnableBodyEnableFirst == << "irq_set_enabled", "irq_set_exclusive_handler" >>

\* the statements of enable_pio_isrs, in program order
EnableBody == << "irq_set_exclusive_handler", "irq_set_enabled" >>

\* main entering its loop without the call of enable_pio_isrs
StartupBodyNoEnable == << "stdio_init_all" >> \o LoadBody

\* what main does before its loop, in program order
StartupBody == << "stdio_init_all" >> \o LoadBody \o EnableBody

\* the statement after p of the startup: the next one, or the first statement
\* of the first trigger_isr call
AfterStartup(p) ==
    LET i == IndexOf(StartupBody, p)
    IN  IF i < Len(StartupBody) THEN StartupBody[i + 1] ELSE TriggerBody[1]

\* a loop of main that leaves out its last call
NextChannelSkipLast(s) == (s + 1) % (NumSm - 1)

\* the channel main triggers after channel s (the unrolled loop of main)
NextChannel(s) == (s + 1) % NumSm

\* main runs only while the interrupt context is idle
MainRuns == isr_pc = "idle"

\* the main context executes statement p of trigger_isr
Step(p) ==
    /\ MainRuns
    /\ pc = p
    /\ pc' = AfterStmt(p)

\* --------------------------------------------------------------- observers
\* which step a transition is
MainAt(p) == pc = p /\ pc' # p
MainReads == \E p \in {"printf_actual"} \cup {CheckPc[i] : i \in 1 .. Len(CheckPc)} : MainAt(p)
HandlerReads == isr_pc = "idle" /\ isr_pc' = "ack"
HandlerAcks == isr_pc = "ack" /\ isr_pc' = "idle"
InTrigger(p) == \E i \in 1 .. Len(TriggerBody) : TriggerBody[i] = p

\* the order of the main context's statements
ObserveOrder ==
    /\ trace' = IF MainAt("sleep_ms") THEN <<>>
                ELSE IF pc' # pc /\ InTrigger(pc) THEN Append(trace, pc)
                ELSE trace
    /\ lastStim' = IF MainAt("pio_sm_put_blocking") THEN sm ELSE lastStim
    /\ prevStim' = IF MainAt("pio_sm_put_blocking") THEN lastStim ELSE prevStim
    /\ delays' = IF MainAt("pio_sm_put_blocking") THEN 0
                 ELSE IF MainAt("sleep_ms") THEN Min(delays + 1, MaxDelays)
                 ELSE delays

\* the value the reset overwrites
ObserveReset ==
    preReset' = IF MainAt("clear_flags") THEN irq_flags
                ELSE IF MainAt("sleep_ms") THEN -1
                ELSE preReset

\* the handler's runs between two accesses of irq_flags by the main context
ObserveRuns ==
    IF HandlerReads
      THEN /\ runs' = Min(runs + 1, MaxRuns)
           /\ lastStatus' = irq
           /\ dropped' = (runs >= 1 /\ BitClear(irq_flags, irq) # 0)
      ELSE IF MainReads \/ MainAt("clear_flags")
        THEN runs' = 0 /\ lastStatus' = 0 /\ dropped' = FALSE
        ELSE UNCHANGED hruns

\* what the current trigger_isr call prints up to its read of irq_flags, and
\* whether the handler ran for its channel between its send and that read;
\* the statement after the read ends the observation
Forget == MainAt(CheckPc[1])

ObserveConsole ==
    /\ out' = IF Forget THEN <<>>
              ELSE IF MainAt("printf_triggering") THEN Append(out, FmtTriggering(sm))
              ELSE IF MainAt("printf_expected") THEN Append(out, FmtExpected(ExpectedFlags(sm)))
              ELSE IF MainAt("printf_actual") THEN Append(out, FmtActual(irq_flags))
              ELSE out
    /\ expected' = IF Forget THEN -1
                   ELSE IF MainAt("printf_expected") THEN ExpectedFlags(sm)
                   ELSE expected
    /\ actual' = IF Forget THEN -1
                 ELSE IF MainAt("printf_actual") THEN irq_flags
                 ELSE actual
    /\ window' = IF MainAt("pio_sm_put_blocking") THEN TRUE
                 ELSE IF MainAt("printf_actual") \/ Forget THEN FALSE
                 ELSE window
    /\ quiet' = IF MainAt("pio_sm_put_blocking")
                  THEN \A j \in Channels \ {sm} : fifo[j] = 0 /\ ~Bit(irq, j)
                ELSE IF Forget THEN FALSE
                ELSE quiet
    /\ serviced' = IF MainAt("pio_sm_put_blocking") \/ Forget THEN FALSE
                   ELSE IF HandlerReads /\ window /\ Bit(irq, sm) THEN TRUE
                   ELSE serviced

\* the kind of value a log of actual flags shows: nothing published ("zero"),
\* exactly the bit of the call's channel ("correct"), exactly the bit of the
\* channel stimulated before it ("stale"), or anything else
Outcome(v, s, before) ==
    IF v = 0 THEN "zero"
    ELSE IF v = Shl1(s) THEN "correct"
    ELSE IF before # -1 /\ v = Shl1(before) THEN "stale"
    ELSE "other"

\* what the handler published between a reset and the next log of actual
\* flags, and which kinds of value the logs have shown
ObserveOutcomes ==
    /\ pub' = IF MainAt("clear_flags") \/ MainAt("printf_actual") THEN 0
              ELSE IF HandlerReads /\ pc \notin FlagReads \ {"printf_actual"} /\ pc # "clear_flags"
                THEN BitOr(pub, irq)
              ELSE pub
    /\ own' = IF MainAt("pio_sm_put_blocking") \/ MainAt("printf_actual") THEN FALSE
              ELSE IF HandlerReads /\ pc \in {"printf_expected", "printf_actual"} /\ Bit(irq, sm)
                THEN TRUE
              ELSE own
    /\ outcomes' = IF MainAt("printf_actual")
                     THEN outcomes \cup ({Outcome(irq_flags, sm, prevStim)} \ {"other"})
                   ELSE outcomes

\* the masks the four bit checks test, in program order
CheckMask == << PIO_SM_0_IRQ, PIO_SM_1_IRQ, PIO_SM_2_IRQ, PIO_SM_3_IRQ >>

\* the bits of irq_flags statement p of trigger_isr observes: the log prints
\* the whole word, a bit check tests the bits of its mask
ReadMask(p) ==
    IF p = "printf_actual" THEN Pow2(NumSm) - 1
    ELSE IF \E i \in 1 .. Len(CheckPc) : CheckPc[i] = p THEN CheckMask[IndexOf(CheckPc, p)]
    ELSE 0

\* what becomes of each stimulus: published by the handler, observed by a read
\* of the main context, or erased unobserved by the reset
ObserveLost ==
    /\ owed' = IF MainAt("pio_sm_put_blocking") THEN [owed EXCEPT ![sm] = @ + 1]
               ELSE IF HandlerReads
                 THEN [k \in Channels |-> IF Bit(irq, k) THEN owed[k] - 1 ELSE owed[k]]
               ELSE owed
    /\ unread' = IF HandlerReads THEN irq
                 ELSE IF MainReads THEN BitClear(unread, ReadMask(pc))
                 ELSE IF MainAt("clear_flags") THEN 0
                 ELSE unread
    /\ lost' = IF MainAt("clear_flags") THEN unread
               ELSE IF MainAt("sleep_ms") THEN 0
               ELSE lost

\* the value the current call logged, the values its bit checks read, and the
\* handler's runs in between; the reset ends the observation
ObserveSnapshot ==
    /\ shown' = IF MainAt("printf_actual") THEN irq_flags
                ELSE IF MainAt("clear_flags") THEN -1
                ELSE shown
    /\ fresh' = IF MainAt("printf_actual") \/ MainAt("clear_flags") THEN -1
                ELSE IF HandlerReads /\ shown # -1 /\ pc # "clear_flags" THEN irq
                ELSE fresh

\* the bits a handler run finds pending at its acknowledgment without having
\* stored them, and what the next run reads of them
ObserveAck ==
    /\ spared' = IF HandlerAcks THEN BitClear(irq, irq_flags)
                 ELSE IF HandlerReads THEN 0
                 ELSE spared
    /\ late' = IF HandlerReads THEN BitAnd(irq, spared)
               ELSE IF HandlerAcks THEN 0
               ELSE late

\* channel k has a stimulus its handler run has not acknowledged yet: a word
\* in its FIFO or its IRQ bit pending
Outstanding(k) == fifo[k] > 0 \/ Bit(irq, k)

\* whether the hardware and the handler have kept pace with main so far
ObservePace ==
    paced' = IF MainAt("pio_sm_put_blocking")
               THEN paced /\ \A j \in Channels \ {sm} : ~Outstanding(j)
             ELSE paced

\* every step is observed by the order observer and by the one switched on
Observe ==
    /\ watch' = watch
    /\ ObserveOrder
    /\ IF watch = "reset" THEN ObserveReset ELSE UNCHANGED preReset
    /\ IF watch = "runs" THEN ObserveRuns ELSE UNCHANGED hruns
    /\ IF watch = "console" THEN ObserveConsole ELSE UNCHANGED console
    /\ IF watch = "outcomes" THEN ObserveOutcomes ELSE UNCHANGED race
    /\ IF watch = "lost" THEN ObserveLost ELSE UNCHANGED losses
    /\ IF watch = "snapshot" THEN ObserveSnapshot ELSE UNCHANGED snapshot
    /\ IF watch = "ack" THEN ObserveAck ELSE UNCHANGED acks
    /\ IF watch = "pace" THEN ObservePace ELSE UNCHANGED paced

\* ------------------------------------------------------------------ startup
\* the main context executes statement p of the startup
StartupStep(p) ==
    /\ MainRuns
    /\ pc = p
    /\ pc' = AfterStartup(p)

stdio_init_all ==
    /\ StartupStep("stdio_init_all")
    /\ UNCHANGED <<sm, offset, prog_loads, sm_cfg, handler, enabled, hw, isr>>
    /\ Observe

\* the offset is whatever free place of the PIO's program memory the SDK finds
pio_add_program ==
    /\ StartupStep("pio_add_program")
    /\ \E o \in 0 .. MaxOffset : offset' = o
    /\ prog_loads' = prog_loads + 1
    /\ UNCHANGED <<sm, sm_cfg, handler, enabled, hw, isr>>
    /\ Observe

\* a fixed offset in the place of the one pio_add_program returned
InitOffsetZero(k, o) == 0

\* offset load_pio_programs passes to the initialisation of state machine k
InitOffset(k, o) == o

simply_isr_program_init(k) ==
    /\ StartupStep(InitPc[k + 1])
    /\ sm_cfg' = [sm_cfg EXCEPT ![k] = Append(@, InitOffset(k, offset) - offset)]
    /\ UNCHANGED <<sm, offset, prog_loads, handler, enabled, hw, isr>>
    /\ Observe

\* load_pio_programs returns: its local goes out of scope
load_return ==
    /\ StartupStep("load_return")
    /\ offset' = -1
    /\ UNCHANGED <<sm, prog_loads, sm_cfg, handler, enabled, hw, isr>>
    /\ Observe

irq_set_exclusive_handler ==
    /\ StartupStep("irq_set_exclusive_handler")
    /\ handler' = Handler
    /\ UNCHANGED <<sm, offset, prog_loads, sm_cfg, enabled, hw, isr>>
    /\ Observe

irq_set_enabled ==
    /\ StartupStep("irq_set_enabled")
    /\ enabled' = TRUE
    /\ UNCHANGED <<sm, offset, prog_loads, sm_cfg, handler, hw, isr>>
    /\ Observe

\* -------------------------------------------------------------- trigger_isr
printf_triggering ==
    /\ Step("printf_triggering")
    /\ UNCHANGED <<sm, offset, prog_loads, sm_cfg, handler, enabled, hw, isr>>
    /\ Observe

\* blocks while the TX FIFO of sm is full
pio_sm_put_blocking ==
    /\ Step("pio_sm_put_blocking")
    /\ fifo[sm] < FifoDepth
    /\ fifo' = [fifo EXCEPT ![sm] = @ + 1]
    /\ UNCHANGED <<sm, offset, prog_loads, sm_cfg, handler, enabled, irq, isr>>
    /\ Observe

printf_expected ==
    /\ Step("printf_expected")
    /\ UNCHANGED <<sm, offset, prog_loads, sm_cfg, handler, enabled, hw, isr>>
    /\ Observe

printf_actual ==
    /\ Step("printf_actual")
    /\ UNCHANGED <<sm, offset, prog_loads, sm_cfg, handler, enabled, hw, isr>>
    /\ Observe

\* if (irq_flags & mask) { }: both branches are empty
check_sm(k, mask) ==
    /\ Step(CheckPc[k + 1])
    /\ BitAnd(irq_flags, mask) \in {0, mask}
    /\ UNCHANGED <<sm, offset, prog_loads, sm_cfg, handler, enabled, hw, isr>>
    /\ Observe

\* irq_flags &= ~(1 << sm) in the place of irq_flags = 0
ClearedOwnBit(old, s) == BitClear(old, Shl1(s))

\* value trigger_isr leaves in irq_flags
Cleared(old, s) == 0

clear_flags ==
    /\ Step("clear_flags")
    /\ irq_flags' = Cleared(irq_flags, sm)
    /\ UNCHANGED <<sm, offset, prog_loads, sm_cfg, handler, enabled, hw, isr_pc>>
    /\ Observe

\* --------------------------------------------------------------------- main
\* sleep_ms(1000), then the next call of the unrolled loop
sleep_ms ==
    /\ MainRuns
    /\ pc = "sleep_ms"
    /\ pc' = TriggerBody[1]
    /\ sm' = NextChannel(sm)
    /\ UNCHANGED <<offset, prog_loads, sm_cfg, handler, enabled, hw, isr>>
    /\ Observe

\* ------------------------------------------------------------ PIO hardware
\* simply_isr on state machine k, once initialised to run it from its start:
\* pull a word, raise IRQ flag k, wait until the flag is cleared
pio_sm_step(k) ==
    /\ sm_cfg[k] # <<>>
    /\ sm_cfg[k][Len(sm_cfg[k])] = 0
    /\ fifo[k] > 0
    /\ ~Bit(irq, k)
    /\ fifo' = [fifo EXCEPT ![k] = @ - 1]
    /\ irq' = BitOr(irq, Shl1(k))
    /\ UNCHANGED <<prog, isr>>
    /\ Observe

\* an acknowledgment that clears nothing
hw_clear_nothing(reg, mask) == reg

\* an acknowledgment of every bit of the register
hw_clear_all(reg, mask) == 0

\* hw_set_bits in the place of hw_clear_bits
hw_set_bits(reg, mask) == BitOr(reg, mask)

\* hw_clear_bits(&reg, mask)
hw_clear_bits(reg, mask) == BitClear(reg, mask)

\* ------------------------------------------------------- interrupt context
\* irq_flags |= status in the place of irq_flags = status
PublishMerge(old, status) == BitOr(old, status)

\* value the handler stores into irq_flags
Publish(old, status) == status

\* dispatch of PIO0_IRQ_0 and the handler's first statement
simply_isr_handler_read ==
    /\ isr_pc = "idle"
    /\ enabled
    /\ irq # 0
    /\ IF handler = Handler
         THEN irq_flags' = Publish(irq_flags, irq) /\ isr_pc' = "ack"
         ELSE irq_flags' = irq_flags /\ isr_pc' = "fault"
    /\ UNCHANGED <<prog, hw>>
    /\ Observe

\* the handler's second statement and its return
simply_isr_handler_ack ==
    /\ isr_pc = "ack"
    /\ irq' = hw_clear_bits(irq, irq_flags)
    /\ isr_pc' = "idle"
    /\ UNCHANGED <<prog, fifo, irq_flags>>
    /\ Observe

\* ------------------------------------------------------------------- steps
Startup ==
    \/ stdio_init_all
    \/ pio_add_program
    \/ \E k \in Channels : simply_isr_program_init(k)
    \/ load_return
    \/ irq_set_exclusive_handler
    \/ irq_set_enabled

trigger_isr ==
    \/ printf_triggering
    \/ pio_sm_put_blocking
    \/ printf_expected
    \/ printf_actual
    \/ check_sm(0, PIO_SM_0_IRQ)
    \/ check_sm(1, PIO_SM_1_IRQ)
    \/ check_sm(2, PIO_SM_2_IRQ)
    \/ check_sm(3, PIO_SM_3_IRQ)
    \/ clear_flags

Main == Startup \/ trigger_isr \/ sleep_ms

simply_isr_handler == simply_isr_handler_read \/ simply_isr_handler_ack

Hardware == \E k \in Channels : pio_sm_step(k)

\* ------------------------------------------------------------ specification
Init ==
    /\ pc = "stdio_init_all"
    /\ sm = 0
    /\ offset = -1
    /\ prog_loads = 0
    /\ sm_cfg = [k \in Channels |-> <<>>]
    /\ handler = NoHandler
    /\ enabled = FALSE
    /\ fifo = [k \in Channels |-> 0]
    /\ irq = 0
    /\ irq_flags = 0
    /\ isr_pc = "idle"
    /\ trace = <<>>
    /\ lastStim = -1
    /\ prevStim = -1
    /\ delays = 0
    /\ preReset = -1
    /\ runs = 0
    /\ lastStatus = 0
    /\ dropped = FALSE
    /\ out = <<>>
    /\ expected = -1
    /\ actual = -1
    /\ window = FALSE
    /\ quiet = FALSE
    /\ serviced = FALSE
    /\ pub = 0
    /\ own = FALSE
    /\ outcomes = {}
    /\ owed = [k \in Channels |-> 0]
    /\ unread = 0
    /\ lost = 0
    /\ shown = -1
    /\ fresh = -1
    /\ spared = 0
    /\ late = 0
    /\ paced = TRUE

Next == Main \/ simply_isr_handler \/ Hardware

\* the program and the order of its steps
InitOrder == Init /\ watch = "order"
Spec == InitOrder /\ [][Next]_vars

\* the same under fair scheduling: the main context runs whenever it is not
\* preempted or blocked, a pending interrupt is dispatched and its handler runs
\* to its end, and every state machine keeps executing its program
Fairness ==
    /\ WF_vars(Main)
    /\ WF_vars(simply_isr_handler)
    /\ \A k \in Channels : WF_vars(pio_sm_step(k))
FairSpec == InitOrder /\ [][Next]_vars /\ Fairness

\* the program, with the value each reset overwrites
InitReset == Init /\ watch = "reset"
SpecReset == InitReset /\ [][Next]_vars

\* the program, with the handler's runs between two accesses by main
InitRuns == Init /\ watch = "runs"
SpecRuns == InitRuns /\ [][Next]_vars

\* the program, with its console output and the handshake of each call
InitConsole == Init /\ watch = "console"
SpecConsole == InitConsole /\ [][Next]_vars

\* the program, with the kinds of value its logs of actual flags show
InitOutcomes == Init /\ watch = "outcomes"
SpecOutcomes == InitOutcomes /\ [][Next]_vars

\* the program, with what becomes of each stimulus
InitLost == Init /\ watch = "lost"
SpecLost == InitLost /\ [][Next]_vars

\* the program, with the values one call logs and tests
InitSnapshot == Init /\ watch = "snapshot"
SpecSnapshot == InitSnapshot /\ [][Next]_vars

\* the program, with the bits each acknowledgment leaves pending
InitAck == Init /\ watch = "ack"
SpecAck == InitAck /\ [][Next]_vars

\* the program, with whether every send found the other channels served
InitPace == Init /\ watch = "pace"
SpecPace == InitPace /\ [][Next]_vars

\* ------------------------------------------------------------------ claims
OneBit(v) == v \in {Shl1(k) : k \in Channels}

\* C1: whenever the handler has run since the main context last accessed
\* irq_flags, irq_flags (the value the main context reads next) is exactly the
\* status the latest run read: nothing an earlier run published is OR-ed in,
\* also when two or more runs came before the read.
C1_Overwrite == runs >= 1 => irq_flags = lastStatus

\* two runs before a read of the main context, the second dropping a bit the
\* first had published
C1_Witness ==
    /\ runs >= 2
    /\ dropped
    /\ MainRuns
    /\ pc = "printf_actual"
    /\ irq_flags = lastStatus

\* C2: in the state right after a run of the handler, every bit of the status
\* the run read is clear in pio0_hw->irq.
C2_AckClears == [][HandlerAcks => BitAnd(irq', lastStatus) = 0]_vars

\* a run that serviced two or more channels at once has returned
C2_Witness ==
    /\ isr_pc = "idle"
    /\ runs >= 1
    /\ lastStatus # 0
    /\ ~OneBit(lastStatus)
    /\ BitAnd(irq, lastStatus) = 0

\* C3 as stated: whenever the handler ran for channel sm between the send and
\* the read of the current call, the value read is exactly 1 << sm and equals
\* the expected value.
C3_Original ==
    (actual # -1 /\ serviced) => (actual = Shl1(sm) /\ actual = expected)

\* C3, amended: if no other channel had a stimulus outstanding when the current
\* call sent its word, and the handler ran for channel sm between that send and
\* the read, then the value read is exactly 1 << sm, it equals the expected
\* value, and the two lines print that same value.
C3_Amended ==
    (actual # -1 /\ serviced /\ quiet) =>
        /\ actual = Shl1(sm)
        /\ expected = Shl1(sm)
        /\ out = << FmtTriggering(sm), FmtExpected(Shl1(sm)), FmtActual(Shl1(sm)) >>

\* channel 2 fired before the read, nothing else outstanding
C3_Witness ==
    /\ sm = 2
    /\ quiet
    /\ serviced
    /\ actual = 4
    /\ out = << "Triggering ISR from state machine 2",
                "Expected IRQ flags: 0x00000004",
                "Actual IRQ Flags: 0x00000004" >>

\* C4: the reset step leaves irq_flags at exactly 0, whatever it held.
C4_ResetZero == [][MainAt("clear_flags") => irq_flags' = 0]_vars

\* the reset has just overwritten a value with all four bits set
C4_Witness ==
    /\ pc = "sleep_ms"
    /\ preReset = 15
    /\ irq_flags = 0

In(e) == \E i \in 1 .. Len(trace) : trace[i] = e
Pos(e) == IndexOf(trace, e)
Count(e) == Cardinality({i \in 1 .. Len(trace) : trace[i] = e})

\* C5: every stimulus goes to the channel after the previous one's in the
\* rotation 0,1,2,3,0,..., exactly one delay after it; a stimulus is one word
\* into one FIFO, and each iteration sends exactly one.
C5_Rotation ==
    [][ /\ MainAt("pio_sm_put_blocking") =>
              /\ sm = (IF lastStim = -1 THEN 0 ELSE (lastStim + 1) % 4)
              /\ (lastStim # -1 => delays = 1)
              /\ \A j \in Channels : fifo'[j] = fifo[j] + (IF j = sm THEN 1 ELSE 0)
              /\ Count("pio_sm_put_blocking") = 0
        /\ MainAt("sleep_ms") => Count("pio_sm_put_blocking") = 1 ]_vars

\* the rotation has wrapped around from channel 3 to channel 0
C5_Witness == prevStim = 3 /\ lastStim = 0 /\ delays = 0

\* C6: the interrupt is never enabled without the handler installed, and the
\* interrupt is never dispatched with no handler.
C6_Registered == (enabled => handler = Handler) /\ isr_pc # "fault"

\* the interrupt was dispatched to the installed handler
C6_Witness == enabled /\ handler = Handler /\ isr_pc = "ack"

\* C7: the program is added at most once and before any initialisation; every
\* state machine is initialised at most once, to run from the offset that load
\* returned; once load_pio_programs has initialised the last one, all four are
\* initialised.
C7_Load ==
    /\ prog_loads <= 1
    /\ \A k \in Channels :
          /\ Len(sm_cfg[k]) <= 1
          /\ Len(sm_cfg[k]) = 1 => (prog_loads = 1 /\ sm_cfg[k][1] = 0)
    /\ pc \notin {"stdio_init_all", "pio_add_program", "program_init_0",
                  "program_init_1", "program_init_2", "program_init_3"}
         => (prog_loads = 1 /\ \A k \in Channels : Len(sm_cfg[k]) = 1)

\* the program was loaded at a nonzero offset and all four state machines
\* were initialised to run it
C7_Witness ==
    /\ pc = "load_return"
    /\ offset = 1
    /\ \A k \in Channels : sm_cfg[k] = << 0 >>

\* C8: under fair scheduling the Driver Loop never faults and never stops:
\* every channel is stimulated again and again, so every blocking send
\* completes.
C8_Forever ==
    /\ [](isr_pc # "fault")
    /\ \A k \in Channels : []<>(pc = "printf_expected" /\ sm = k /\ lastStim = k)

\* the send of the current call is stalled on a full FIFO, after a full cycle
C8_Witness ==
    /\ pc = "pio_sm_put_blocking"
    /\ MainRuns
    /\ fifo[sm] = FifoDepth
    /\ ~ENABLED Main
    /\ prevStim = 2 /\ lastStim = 3

\* C9 as stated: the word is sent first and the line naming the channel is
\* printed after the send.
C9_Original ==
    In("printf_triggering") =>
        (In("pio_sm_put_blocking") /\ Pos("pio_sm_put_blocking") < Pos("printf_triggering"))

\* C9, amended: the line naming the channel is printed first and the word is
\* sent after it; both come before the expected-flags line, which comes before
\* the actual-flags line.
C9_Amended ==
    /\ In("pio_sm_put_blocking") =>
          (In("printf_triggering") /\ Pos("printf_triggering") < Pos("pio_sm_put_blocking"))
    /\ In("printf_expected") =>
          (In("pio_sm_put_blocking") /\ Pos("pio_sm_put_blocking") < Pos("printf_expected"))
    /\ In("printf_actual") =>
          (In("printf_expected") /\ Pos("printf_expected") < Pos("printf_actual"))

\* a call has printed the channel, sent the word and printed both flag lines
C9_Witness ==
    /\ Len(trace) >= 4
    /\ trace[1] = "printf_triggering"
    /\ trace[2] = "pio_sm_put_blocking"
    /\ In("printf_actual")

\* C10: every read of irq_flags comes after the iteration's send and before
\* its reset; the statements from the send to the reset wait for nothing (they
\* can run as soon as the interrupt context is idle, whatever the handler has
\* done); the reset comes after all five reads; the delay comes right after
\* the reset and nowhere else.
C10_Order ==
    /\ \A r \in FlagReads :
          In(r) => /\ In("pio_sm_put_blocking")
                   /\ Pos("pio_sm_put_blocking") < Pos(r)
                   /\ In("clear_flags") => Pos(r) < Pos("clear_flags")
    /\ In("clear_flags") => \A r \in FlagReads : In(r)
    /\ (pc \in FlagReads \cup {"printf_expected", "clear_flags"} /\ MainRuns)
          => ENABLED trigger_isr
    /\ pc = "sleep_ms" <=> (trace # <<>> /\ trace[Len(trace)] = "clear_flags")

\* an iteration has read, reset and reached its delay while the interrupt of
\* its channel is still pending and unserviced
C10_Witness ==
    /\ pc = "sleep_ms"
    /\ Len(trace) = 9
    /\ Bit(irq, sm)
    /\ irq_flags = 0

\* C11: the value logged as actual flags in the iteration for channel k can be
\* zero, the correct value 1 << k, or a stale value carrying the bit of the
\* channel stimulated before (all three are reached); it is zero only if the
\* handler has not run for channel k since the send, and every bit it carries
\* was published by a handler run after the latest reset and before the log.
C11_Race ==
    [][ MainAt("printf_actual") =>
          /\ irq_flags = 0 => ~own
          /\ \A j \in Channels : Bit(irq_flags, j) => Bit(pub, j)
          /\ Outcome(irq_flags, sm, prevStim) = "stale" =>
                (prevStim # sm /\ Bit(pub, prevStim) /\ ~Bit(irq_flags, sm)) ]_vars

\* one run of the program has logged all three kinds of value
C11_Witness == outcomes = {"zero", "correct", "stale"}

\* the interrupt of channel k is raised or about to be, and the handler has
\* not published it
Unpublished(k) ==
    fifo[k] + (IF Bit(irq, k) /\ ~(isr_pc = "ack" /\ Bit(irq_flags, k)) THEN 1 ELSE 0)

\* C12: an interrupt can be lost (a reset erases a bit the handler published
\* after the reads that observe it, which is reached), and once erased it is
\* never observed: the handler publishes the interrupt of each stimulus once
\* and never again, a published bit no read has observed is in irq_flags until
\* the reset or the next handler run, and from the reset to the next log
\* irq_flags holds only what the handler published since the reset.
C12_Lost ==
    /\ \A k \in Channels : owed[k] = Unpublished(k)
    /\ BitClear(unread, irq_flags) = 0
    /\ pc \notin FlagReads \ {"printf_actual"} /\ pc # "clear_flags"
          => irq_flags = unread

\* the handler published the bit of the call's channel after the last read and
\* before the reset; the reset erased it, and nothing of that interrupt is
\* left for a later handler run to publish
C12_Witness ==
    /\ pc = "sleep_ms"
    /\ lost = Shl1(sm)
    /\ irq_flags = 0
    /\ owed[sm] = 0
    /\ ~Bit(irq, sm)
    /\ fifo[sm] = 0
    /\ isr_pc = "idle"

\* a bit check of the current call reads irq_flags
CheckReads == MainReads /\ ~MainAt("printf_actual")

\* C13 as stated: every bit check reads the value the same call logged as
\* actual flags.
C13_Original == [][CheckReads => irq_flags = shown]_vars

\* C13, amended: the log and the four bit checks each read irq_flags anew; a
\* bit check reads the value the call logged if the handler has not run since
\* the log, and otherwise the status the latest handler run since the log
\* read.
C13_Amended ==
    [][CheckReads => irq_flags = (IF fresh = -1 THEN shown ELSE fresh)]_vars

\* a call logged 0 and has made its four bit checks; the handler published the
\* bit of the call's channel after the log and before the last check, which
\* read it
C13_Witness ==
    /\ pc = "clear_flags"
    /\ shown = 0
    /\ fresh = Shl1(sm)

\* C14: under fair scheduling every stimulus is served.  A word leaves the
\* FIFO of channel k only in the step that raises IRQ bit k, and again and
\* again no word of channel k is waiting with bit k clear: every word sent is
\* followed by bit k pending.  Bit k is cleared only by the return of a handler
\* run that stored a value with bit k into irq_flags, and again and again bit k
\* is clear: every pending bit is followed by such a run, and none stays
\* pending forever.  No word is sent before the interrupt is enabled.
C14_Service ==
    /\ [][ \A k \in Channels :
              /\ fifo'[k] > fifo[k] => enabled
              /\ fifo'[k] < fifo[k] => (~Bit(irq, k) /\ Bit(irq', k))
              /\ (Bit(irq, k) /\ ~Bit(irq', k)) => (HandlerAcks /\ Bit(irq_flags, k)) ]_vars
    /\ \A k \in Channels :
          /\ []<>(fifo[k] = 0 \/ Bit(irq, k))
          /\ []<>(~Bit(irq, k))

\* the handler has stored the bit of the channel stimulated last and is about
\* to acknowledge it
C14_Witness ==
    /\ lastStim = sm
    /\ fifo[sm] = 0
    /\ isr_pc = "ack"
    /\ irq_flags = Shl1(sm)
    /\ Bit(irq, sm)

\* C15: main loads the program and initialises the four state machines, then
\* installs the handler and enables the interrupt, then enters its loop: every
\* word is sent with all four state machines initialised, the handler
\* installed and the interrupt enabled.  Before the first word is sent the
\* handler does not run, and irq_flags stays 0 as long as the handler has not
\* run.
C15_Startup ==
    [][ /\ MainAt("irq_set_exclusive_handler") =>
              \A k \in Channels : sm_cfg[k] = << 0 >>
        /\ MainAt("pio_sm_put_blocking") =>
              /\ \A k \in Channels : sm_cfg[k] = << 0 >>
              /\ handler = Handler
              /\ enabled
        /\ lastStim = -1 => (~HandlerReads /\ isr_pc = "idle" /\ irq_flags = 0)
        /\ (irq_flags = 0 /\ ~HandlerReads) => irq_flags' = 0 ]_vars

\* the first run of the handler, after the first word was sent
C15_Witness ==
    /\ lastStim = 0
    /\ prevStim = -1
    /\ pc = "printf_expected"
    /\ isr_pc = "ack"
    /\ irq_flags = Shl1(0)

\* C16: the bits of pio0_hw->irq a handler run clears are exactly the bits it
\* stored into irq_flags; a bit raised after its read of the status and before
\* its acknowledgment is left pending, stays pending until the next run reads
\* the status, and is stored by that run.
C16_AckOnly ==
    [][ /\ HandlerAcks =>
              /\ BitClear(irq, irq') = irq_flags
              /\ irq' = BitClear(irq, irq_flags)
        /\ BitAnd(irq', spared') = spared'
        /\ HandlerReads => BitAnd(irq_flags', spared) = spared ]_vars

\* a run of the handler has stored, alone, the bit of another channel that was
\* raised during the run before it and left pending by its acknowledgment
C16_Witness ==
    /\ isr_pc = "ack"
    /\ late # 0
    /\ irq_flags = late
    /\ late # Shl1(sm)

\* at most one channel has a stimulus outstanding, and irq_flags is 0 or one of
\* the bits 0..3
OneAtATime ==
    /\ Cardinality({k \in Channels : Outstanding(k)}) <= 1
    /\ irq_flags = 0 \/ OneBit(irq_flags)

\* C17 as stated: in every reachable state at most one channel has an
\* unserviced interrupt and irq_flags is 0 or has exactly one of bits 0..3 set.
C17_Original == OneAtATime

\* C17, amended: as long as every send has found no other channel with a
\* stimulus outstanding, at most one channel has an unserviced interrupt and
\* irq_flags is 0 or has exactly one of bits 0..3 set.
C17_Amended == paced => OneAtATime

\* in the second cycle, with the hardware and the handler having kept pace,
\* the handler has stored the one bit of channel 0
C17_Witness ==
    /\ paced
    /\ prevStim = 3
    /\ lastStim = 0
    /\ isr_pc = "ack"
    /\ irq_flags = Shl1(0)
    /\ irq = Shl1(0)

\* stimuli sent to channel k that no handler run has acknowledged yet: those
\* not published yet, and the one the current run has stored and not yet
\* acknowledged
Unacked(k) ==
    owed[k] + (IF isr_pc = "ack" /\ Bit(irq_flags, k) THEN 1 ELSE 0)

\* C18: irq_flags and pio0_hw->irq hold only bits 0..3, and bit k of
\* pio0_hw->irq is set only if channel k was sent a stimulus that no handler
\* run has acknowledged yet.
C18_Range ==
    /\ irq_flags \in 0 .. (Pow2(NumSm) - 1)
    /\ irq \in 0 .. (Pow2(NumSm) - 1)
    /\ \A k \in Channels : Bit(irq, k) => Unacked(k) > 0

\* all four bits are pending and stored, each for the one stimulus its channel
\* was sent, and the handler is about to acknowledge them
C18_Witness ==
    /\ isr_pc = "ack"
    /\ irq = Pow2(NumSm) - 1
    /\ irq_flags = Pow2(NumSm) - 1
    /\ \A k \in Channels : owed[k] = 0 /\ fifo[k] = 0

\* C19: irq_flags changes only in the handler's store of the status it read
\* and in the reset of trigger_isr, which leaves 0, and it leaves 0 only in the
\* handler's store; a bit of pio0_hw->irq is cleared only by the handler's
\* acknowledgment; no statement of main changes pio0_hw->irq; the handler
\* changes nothing but irq_flags and pio0_hw->irq.
C19_Ownership ==
    [][ /\ irq_flags' # irq_flags =>
              \/ HandlerReads /\ irq_flags' = irq
              \/ MainAt("clear_flags") /\ irq_flags' = 0
        /\ (irq_flags = 0 /\ irq_flags' # 0) => HandlerReads
        /\ (\E k \in Channels : Bit(irq, k) /\ ~Bit(irq', k)) => HandlerAcks
        /\ pc' # pc => irq' = irq
        /\ isr_pc' # isr_pc => UNCHANGED <<prog, fifo>> ]_vars

\* both writers have acted: the reset erased the bit of the call's channel, and
\* a run of the handler, since returned, has stored another value
C19_Witness ==
    /\ pc = "sleep_ms"
    /\ preReset = Shl1(sm)
    /\ irq_flags # 0
    /\ isr_pc = "idle"
    /\ irq = 0

====
